---- MODULE Spec2Model ----
(***************************************************************************)
(* The SpecialRelativitySimulation component of src/src/App.jsx: the       *)
(* slider-to-velocity mapping, the kinematic factors derived from the      *)
(* velocity, and the requestAnimationFrame stopwatch.                      *)
(*                                                                         *)
(* Numbers.  The component computes in IEEE doubles; the model computes in *)
(* fixed point.  The slider is a grid of SliderSteps + 1 positions on      *)
(* [0,1]; a velocity is an integer numerator over VDen, which is exact for *)
(* both mapping formulas on that grid; gamma, lengthContraction and        *)
(* timeDilation are integers over One (four decimals) and Math.sqrt is the *)
(* integer square root at that precision.  Timestamps are milliseconds and *)
(* whole multiples of MsPerSecond, so deltaTime / 1000 is exact and        *)
(* elapsedTime is a whole number of seconds.                               *)
(*                                                                         *)
(* React.  A handler and the render of the state it sets are one step      *)
(* (React flushes the render before the next event).  The passive effects  *)
(* of that render run in a later step, FlushEffects, together with the     *)
(* render their own setState calls cause: between the two steps the        *)
(* committed render shows the state the handler left.  React runs the      *)
(* effects of a render before it handles the next event or renders again,  *)
(* so no handler and no frame callback is taken between the two steps.     *)
(*                                                                         *)
(* Host.  requestAnimationFrame registers a callback under a handle and    *)
(* cancelAnimationFrame removes the registration.  Time shows only in the  *)
(* timestamps the host hands to the callbacks, which never decrease.  A    *)
(* handle number is used again only once its registration is gone;         *)
(* animationRef is overwritten with every handle issued, so it never names *)
(* a later registration by an old number.  A callback that registers       *)
(* itself again takes the number it ran under, and the animation effect    *)
(* takes a number other than the one in animationRef: the number names the *)
(* loop, and a loop started anew shows as a change of animationRef.  Under *)
(* Spec a cancelled callback never runs; SpecStray adds a host that runs   *)
(* one while the clock is idle.                                            *)
(***************************************************************************)
EXTENDS Integers, FiniteSets, Sequences, TLC

\* ---------------------------------------------------------------- bounds
\* The slider has 2 * SliderHalf steps (the code's step is 0.001).
SliderHalf == 4
\* Frames come at every whole second up to MaxTickSeconds, and once more at
\* LateSeconds (a long gap: a backgrounded tab, or a long pause).
MaxTickSeconds == 3
LateSeconds == 11
\* requestAnimationFrame handles in use at one time.
MaxHandles == 3

\* ------------------------------------------------------ program constants
\* 1.0 in the fixed point of velocities and factors (0.9999 has 4 decimals).
One == 10000
\* deltaTime / 1000
MsPerSecond == 1000
\* Math.pow(1 - sliderValue, exponent)
exponent == 4
\* Linear scale: 0.1c to 0.9c
minVelocityLinear == 1000
maxVelocityLinear == 9000
\* Logarithmic scale: 0.9c to 0.9999c
minVelocityLog == 9000
maxVelocityLog == 9999

SliderSteps == 2 * SliderHalf
SliderValues == 0 .. SliderSteps
\* setSliderValue(0.5), useState(0.5)
SliderMid == (5 * SliderSteps) \div 10
ViewModes == {"length", "time"}
Handles == 1 .. MaxHandles
\* useRef(null)
NoHandle == 0
\* The timestamps (ms) the host may hand to a frame callback.
Timestamps ==
    {s * MsPerSecond : s \in 0 .. MaxTickSeconds} \cup {LateSeconds * MsPerSecond}

RECURSIVE Pow(_, _)
Pow(b, e) ==
    IF e = 0 THEN 1 ELSE b * Pow(b, e - 1)

\* Denominator of a velocity: One * SliderSteps^exponent.
VDen == One * Pow(SliderSteps, exponent)

\* ------------------------------------------------------ VelocityMapper
\* minVelocity + (maxVelocity - minVelocity) * sliderValue
LinearVelocity(s) ==
    (minVelocityLinear * SliderSteps + (maxVelocityLinear - minVelocityLinear) * s)
        * Pow(SliderSteps, exponent - 1)

\* An ease-in curve: Math.pow(sliderValue, exponent).
MappedValueEaseIn(n, s) ==
    Pow(s, exponent)

\* mappedValue = 1 - Math.pow(1 - sliderValue, exponent) for the slider at
\* s / n, over n^exponent.
MappedValueOn(n, s) ==
    Pow(n, exponent) - Pow(n - s, exponent)

\* mappedValue on the slider's grid, over SliderSteps^exponent.
MappedValue(s) ==
    MappedValueOn(SliderSteps, s)

\* A logarithmic scale that starts at the linear scale's minimum.
LogVelocityFromLinearMin(s) ==
    minVelocityLinear * Pow(SliderSteps, exponent)
        + (maxVelocityLog - minVelocityLinear) * MappedValue(s)

\* minVelocity + (maxVelocity - minVelocity) * mappedValue for the slider at
\* s / n, over One * n^exponent.
LogVelocityOn(n, s) ==
    minVelocityLog * Pow(n, exponent)
        + (maxVelocityLog - minVelocityLog) * MappedValueOn(n, s)

\* newVelocity of the logarithmic branch on the slider's grid, over VDen.
LogVelocity(s) ==
    LogVelocityOn(SliderSteps, s)

\* The value the mapping effect hands to setVelocity.
MapVelocity(s, log) ==
    IF log THEN LogVelocity(s) ELSE LinearVelocity(s)

\* ------------------------------------------------------ KinematicsEngine
RECURSIVE SqrtSearch(_, _, _)
SqrtSearch(x, lo, hi) ==
    IF lo >= hi THEN lo
    ELSE LET mid == (lo + hi + 1) \div 2
         IN  IF mid * mid <= x THEN SqrtSearch(x, mid, hi)
                               ELSE SqrtSearch(x, lo, mid - 1)

\* Math.sqrt of x / One^2, over One (rounded down).
Sqrt(x) ==
    SqrtSearch(x, 0, One)

\* A velocity over One (the fixed point the factors are computed in).
VFix(v) ==
    v \div Pow(SliderSteps, exponent)

\* A sign slip under the root: 1 / Math.sqrt(1 + velocity * velocity).
gammaOfSum(v) ==
    (One * One) \div Sqrt(One * One + VFix(v) * VFix(v))

\* gamma = 1 / Math.sqrt(1 - velocity * velocity)
gamma(v) ==
    (One * One) \div Sqrt(One * One - VFix(v) * VFix(v))

\* A contraction without the root: 1 - velocity * velocity.
lengthContractionSquared(v) ==
    (One * One - VFix(v) * VFix(v)) \div One

\* lengthContraction = 1 / gamma
lengthContraction(v) ==
    (One * One) \div gamma(v)

\* timeDilation = gamma
timeDilation(v) ==
    gamma(v)

\* (num / den).toFixed(2), in hundredths.
ToFixed2(num, den) ==
    (2 * 100 * num + den) \div (2 * den)

\* stationaryTime = elapsedTime.toFixed(2)
stationaryTime(e) ==
    ToFixed2(e, 1)

\* A moving clock that runs fast: elapsedTime * timeDilation.
movingTimeMultiplied(e, v) ==
    ToFixed2(e * timeDilation(v), One)

\* movingTime = (elapsedTime / timeDilation).toFixed(2)
movingTime(e, v) ==
    ToFixed2(e * One, timeDilation(v))

\* ------------------------------------------------------------- state
VARIABLES
    velocity,        \* useState(0.5), numerator over VDen
    sliderValue,     \* useState(0.5), in slider steps
    viewMode,        \* useState('length')
    isRunning,       \* useState(false)
    useLogarithmic,  \* useState(false)
    elapsedTime,     \* useState(0), seconds
    animationRef,    \* useRef(null): the last handle requestAnimationFrame gave
    lastTimeRef,     \* useRef(0): timestamp of the last frame, 0 when cleared
    effectDeps,      \* the dependencies the effects last ran with
    hasCleanup,      \* the animation effect's last run returned its cleanup
    mounted,         \* the component is mounted
    view,            \* what the last render put on the page
    pending,         \* host: handles of the registered frame callbacks
    now,             \* host: the timestamp of the last frame it ran (ms)
    startElapsed,    \* history: elapsedTime at the last Start (0 after a Reset)
    firstTick,       \* history: timestamp of the first tick since the last Start, -1 if none
    lastTick         \* history: timestamp of the last tick since the last Start or Reset, -1 if none

vars ==
    << velocity, sliderValue, viewMode, isRunning, useLogarithmic, elapsedTime,
       animationRef, lastTimeRef, effectDeps, hasCleanup, mounted, view,
       pending, now, startElapsed, firstTick, lastTick >>

reactState == << velocity, sliderValue, viewMode, isRunning, useLogarithmic, elapsedTime >>
refs == << animationRef, lastTimeRef >>
host == << pending, now >>
history == << startElapsed, firstTick, lastTick >>

\* A render that takes the factors from the velocity of the render before.
RenderFromLastVelocity(v, e, log, mode) ==
    [ velocity          |-> v,
      gamma             |-> gamma(velocity),
      lengthContraction |-> lengthContraction(velocity),
      timeDilation      |-> timeDilation(velocity),
      stationaryTime    |-> stationaryTime(e),
      movingTime        |-> movingTime(e, v),
      useLogarithmic    |-> log,
      viewMode          |-> mode ]

\* The render: the values the returned markup shows.
Render(v, e, log, mode) ==
    [ velocity          |-> v,
      gamma             |-> gamma(v),
      lengthContraction |-> lengthContraction(v),
      timeDilation      |-> timeDilation(v),
      stationaryTime    |-> stationaryTime(e),
      movingTime        |-> movingTime(e, v),
      useLogarithmic    |-> log,
      viewMode          |-> mode ]

\* The dependency arrays of the two effects: [sliderValue, useLogarithmic], [isRunning].
Deps(s, log, run) ==
    [ sliderValue |-> s, useLogarithmic |-> log, isRunning |-> run ]

\* Before the first run of the effects (mount).
NoDeps == [ sliderValue |-> -1, useLogarithmic |-> FALSE, isRunning |-> FALSE ]

\* The last render left effects to run.
EffectsDue ==
    mounted /\ effectDeps # Deps(sliderValue, useLogarithmic, isRunning)

\* requestAnimationFrame: a handle no one holds.
NewHandle(held) ==
    CHOOSE h \in Handles : h \notin held

Init ==
    /\ velocity = VDen \div 2
    /\ sliderValue = SliderMid
    /\ viewMode = "length"
    /\ isRunning = FALSE
    /\ useLogarithmic = FALSE
    /\ elapsedTime = 0
    /\ animationRef = NoHandle
    /\ lastTimeRef = 0
    /\ effectDeps = NoDeps
    /\ hasCleanup = FALSE
    /\ mounted = TRUE
    /\ view = Render(VDen \div 2, 0, FALSE, "length")
    /\ pending = {}
    /\ now = 0
    /\ startElapsed = 0
    /\ firstTick = -1
    /\ lastTick = -1

\* ------------------------------------------------------- host primitives
\* cancelAnimationFrame(h): the registrations left.
cancelAnimationFrame(p, h) ==
    p \ {h}

\* ------------------------------------------------------ DualClockAnimator
\* A frame callback that does not ask for the next frame.
animateOnce(timestamp, rest) ==
    LET base == IF lastTimeRef = 0 THEN timestamp ELSE lastTimeRef
        deltaTime == timestamp - base
    IN  /\ lastTimeRef' = timestamp
        /\ elapsedTime' = elapsedTime + deltaTime \div MsPerSecond
        /\ pending' = rest
        /\ UNCHANGED animationRef

\* animate(timestamp), the frame callback; rest are the other registrations.
animate(timestamp, rest) ==
    LET base == IF lastTimeRef = 0 THEN timestamp ELSE lastTimeRef
        deltaTime == timestamp - base
        h == NewHandle(rest)
    IN  /\ lastTimeRef' = timestamp
        /\ elapsedTime' = elapsedTime + deltaTime \div MsPerSecond
        /\ animationRef' = h
        /\ pending' = rest \cup {h}

\* The history of a tick at timestamp.
Ticked(timestamp) ==
    /\ firstTick' = (IF lastTick = -1 THEN timestamp ELSE firstTick)
    /\ lastTick' = timestamp
    /\ UNCHANGED startElapsed

\* The host runs a registered frame callback, at a timestamp not before the last.
Frame ==
    /\ ~EffectsDue
    /\ \E timestamp \in Timestamps :
         /\ timestamp >= now
         /\ now' = timestamp
         /\ \E h \in pending : animate(timestamp, pending \ {h})
         /\ Ticked(timestamp)
    /\ view' = Render(velocity, elapsedTime', useLogarithmic, viewMode)
    /\ UNCHANGED << velocity, sliderValue, viewMode, isRunning, useLogarithmic,
                    effectDeps, hasCleanup, mounted >>

\* A Pause that leaves lastTimeRef as it is.
toggleAnimationKeepsLastTime ==
    /\ mounted /\ ~EffectsDue
    /\ IF isRunning
         THEN /\ pending' = cancelAnimationFrame(pending, animationRef)
              /\ UNCHANGED << lastTimeRef, history >>
         ELSE /\ UNCHANGED << pending, lastTimeRef >>
              /\ startElapsed' = elapsedTime
              /\ firstTick' = -1
              /\ lastTick' = -1
    /\ isRunning' = ~isRunning
    /\ UNCHANGED << velocity, sliderValue, viewMode, useLogarithmic, elapsedTime,
                    animationRef, effectDeps, hasCleanup, mounted, view, now >>

\* A Start that also zeroes the stopwatch: else { setElapsedTime(0) }.
toggleAnimationZeroesOnStart ==
    /\ mounted /\ ~EffectsDue
    /\ IF isRunning
         THEN /\ pending' = cancelAnimationFrame(pending, animationRef)
              /\ lastTimeRef' = 0
              /\ UNCHANGED << elapsedTime, view, history >>
         ELSE /\ UNCHANGED << pending, lastTimeRef >>
              /\ elapsedTime' = 0
              /\ view' = Render(velocity, 0, useLogarithmic, viewMode)
              /\ startElapsed' = 0
              /\ firstTick' = -1
              /\ lastTick' = -1
    /\ isRunning' = ~isRunning
    /\ UNCHANGED << velocity, sliderValue, viewMode, useLogarithmic,
                    animationRef, effectDeps, hasCleanup, mounted, now >>

\* A button that restarts a running stopwatch from zero instead of pausing it.
toggleAnimationRestarts ==
    /\ mounted /\ ~EffectsDue
    /\ IF isRunning
         THEN /\ elapsedTime' = 0
              /\ view' = Render(velocity, 0, useLogarithmic, viewMode)
              /\ UNCHANGED << isRunning, pending, lastTimeRef, history >>
         ELSE /\ isRunning' = TRUE
              /\ startElapsed' = elapsedTime
              /\ firstTick' = -1
              /\ lastTick' = -1
              /\ UNCHANGED << elapsedTime, view, pending, lastTimeRef >>
    /\ UNCHANGED << velocity, sliderValue, viewMode, useLogarithmic,
                    animationRef, effectDeps, hasCleanup, mounted, now >>

\* A Pause that leaves the cancelling of the frame to the effect's cleanup.
toggleAnimationLeavesFrame ==
    /\ mounted /\ ~EffectsDue
    /\ IF isRunning
         THEN /\ lastTimeRef' = 0
              /\ UNCHANGED << pending, history >>
         ELSE /\ UNCHANGED << pending, lastTimeRef >>
              /\ startElapsed' = elapsedTime
              /\ firstTick' = -1
              /\ lastTick' = -1
    /\ isRunning' = ~isRunning
    /\ UNCHANGED << velocity, sliderValue, viewMode, useLogarithmic, elapsedTime,
                    animationRef, effectDeps, hasCleanup, mounted, view, now >>

\* toggleAnimation, the Start / Pause button.
toggleAnimation ==
    /\ mounted /\ ~EffectsDue
    /\ IF isRunning
         THEN /\ pending' = cancelAnimationFrame(pending, animationRef)
              /\ lastTimeRef' = 0
              /\ UNCHANGED history
         ELSE /\ UNCHANGED << pending, lastTimeRef >>
              /\ startElapsed' = elapsedTime
              /\ firstTick' = -1
              /\ lastTick' = -1
    /\ isRunning' = ~isRunning
    /\ UNCHANGED << velocity, sliderValue, viewMode, useLogarithmic, elapsedTime,
                    animationRef, effectDeps, hasCleanup, mounted, view, now >>

\* A Reset that stops the clock and leaves elapsedTime as it is.
resetSimulationKeepsElapsed ==
    /\ mounted /\ ~EffectsDue
    /\ isRunning' = FALSE
    /\ pending' = cancelAnimationFrame(pending, animationRef)
    /\ lastTimeRef' = 0
    /\ startElapsed' = 0
    /\ lastTick' = -1
    /\ UNCHANGED << velocity, sliderValue, viewMode, useLogarithmic, elapsedTime,
                    animationRef, effectDeps, hasCleanup, mounted, view, now,
                    firstTick >>

\* A Reset that leaves lastTimeRef as it is.
resetSimulationKeepsLastTime ==
    /\ mounted /\ ~EffectsDue
    /\ isRunning' = FALSE
    /\ pending' = cancelAnimationFrame(pending, animationRef)
    /\ elapsedTime' = 0
    /\ view' = Render(velocity, 0, useLogarithmic, viewMode)
    /\ startElapsed' = 0
    /\ lastTick' = -1
    /\ UNCHANGED << velocity, sliderValue, viewMode, useLogarithmic, animationRef,
                    lastTimeRef, effectDeps, hasCleanup, mounted, now, firstTick >>

\* resetSimulation, the Reset button.
resetSimulation ==
    /\ mounted /\ ~EffectsDue
    /\ isRunning' = FALSE
    /\ pending' = cancelAnimationFrame(pending, animationRef)
    /\ elapsedTime' = 0
    /\ lastTimeRef' = 0
    /\ view' = Render(velocity, 0, useLogarithmic, viewMode)
    /\ startElapsed' = 0
    /\ lastTick' = -1
    /\ UNCHANGED << velocity, sliderValue, viewMode, useLogarithmic, animationRef,
                    effectDeps, hasCleanup, mounted, now, firstTick >>

\* ------------------------------------------------------------ controls
\* handleSliderChange: the slider moved to x.
handleSliderChange(x) ==
    /\ mounted /\ ~EffectsDue
    /\ x # sliderValue
    /\ sliderValue' = x
    /\ UNCHANGED << velocity, viewMode, isRunning, useLogarithmic, elapsedTime,
                    refs, effectDeps, hasCleanup, mounted, view, host, history >>

\* A switch of scale that leaves the slider where it is.
toggleScaleKeepsSlider ==
    /\ mounted /\ ~EffectsDue
    /\ useLogarithmic' = ~useLogarithmic
    /\ view' = Render(velocity, elapsedTime, useLogarithmic', viewMode)
    /\ UNCHANGED << velocity, sliderValue, viewMode, isRunning, elapsedTime, refs,
                    effectDeps, hasCleanup, mounted, host, history >>

\* toggleScale, the Linear / Logarithmic switch.
toggleScale ==
    /\ mounted /\ ~EffectsDue
    /\ useLogarithmic' = ~useLogarithmic
    /\ sliderValue' = SliderMid
    /\ view' = Render(velocity, elapsedTime, useLogarithmic', viewMode)
    /\ UNCHANGED << velocity, viewMode, isRunning, elapsedTime, refs, effectDeps,
                    hasCleanup, mounted, host, history >>

\* onClick={() => setViewMode(m)}
setViewMode(m) ==
    /\ mounted /\ ~EffectsDue
    /\ m # viewMode
    /\ viewMode' = m
    /\ view' = Render(velocity, elapsedTime, useLogarithmic, m)
    /\ UNCHANGED << velocity, sliderValue, isRunning, useLogarithmic, elapsedTime,
                    refs, effectDeps, hasCleanup, mounted, host, history >>

\* ------------------------------------------------------------- effects
\* The mapping effect runs: its dependencies changed, or the component mounted.
MappingDue ==
    \/ effectDeps.sliderValue # sliderValue
    \/ effectDeps.useLogarithmic # useLogarithmic

\* An animation effect without a dependency array: it runs after every render.
AnimationDueAlways ==
    TRUE

\* The animation effect runs: isRunning changed, or the component mounted.
AnimationDue ==
    \/ effectDeps = NoDeps
    \/ effectDeps.isRunning # isRunning

\* An animation effect that returns no cleanup.
CleanupNothing(p) ==
    p

\* The cleanup the animation effect returned: cancel the frame animationRef holds.
Cleanup(p) ==
    IF hasCleanup /\ animationRef # NoHandle
        THEN cancelAnimationFrame(p, animationRef)
        ELSE p

\* The effect [sliderValue, useLogarithmic]: setVelocity(newVelocity).
MappingEffect ==
    velocity' = (IF MappingDue THEN MapVelocity(sliderValue, useLogarithmic) ELSE velocity)

\* The effect [isRunning]: its previous cleanup, then its body.
AnimationEffect ==
    IF AnimationDue
        THEN LET left == Cleanup(pending)
                 h == NewHandle(left \cup {animationRef})
             IN  IF isRunning
                   THEN /\ animationRef' = h
                        /\ pending' = left \cup {h}
                        /\ hasCleanup' = TRUE
                   ELSE /\ pending' = left
                        /\ hasCleanup' = FALSE
                        /\ UNCHANGED animationRef
        ELSE UNCHANGED << animationRef, pending, hasCleanup >>

\* React runs the effects of the last render, and renders what they set.
FlushEffects ==
    /\ EffectsDue
    /\ MappingEffect
    /\ AnimationEffect
    /\ effectDeps' = Deps(sliderValue, useLogarithmic, isRunning)
    /\ view' = Render(velocity', elapsedTime, useLogarithmic, viewMode)
    /\ UNCHANGED << sliderValue, viewMode, isRunning, useLogarithmic, elapsedTime,
                    lastTimeRef, mounted, now, history >>

\* The component is unmounted: React runs the cleanup of the animation effect.
Unmount ==
    /\ mounted
    /\ mounted' = FALSE
    /\ pending' = Cleanup(pending)
    /\ hasCleanup' = FALSE
    /\ UNCHANGED << reactState, refs, effectDeps, view, now, history >>

\* --------------------------------------------------------------- host
\* The host runs the callback of the registration animationRef names after
\* it was cancelled, while the clock is idle: a tick racing a Pause or a Reset.
StrayTick ==
    /\ mounted /\ ~EffectsDue
    /\ ~isRunning /\ animationRef # NoHandle /\ pending = {}
    /\ \E timestamp \in Timestamps :
         /\ timestamp >= now
         /\ now' = timestamp
         /\ animate(timestamp, pending)
         /\ Ticked(timestamp)
    /\ view' = Render(velocity, elapsedTime', useLogarithmic, viewMode)
    /\ UNCHANGED << velocity, sliderValue, viewMode, isRunning, useLogarithmic,
                    effectDeps, hasCleanup, mounted >>

Next ==
    \/ \E x \in SliderValues : handleSliderChange(x)
    \/ toggleScale
    \/ \E m \in ViewModes : setViewMode(m)
    \/ toggleAnimation
    \/ resetSimulation
    \/ FlushEffects
    \/ Frame
    \/ Unmount

\* The component under a host that honours cancelAnimationFrame.
Spec ==
    Init /\ [][Next]_vars

NextStray ==
    \/ Next
    \/ StrayTick

\* The component under a host that may run a cancelled callback.
SpecStray ==
    Init /\ [][NextStray]_vars

\* ================================================================ claims
\* The effects of the last render have run.
Settled ==
    effectDeps = Deps(sliderValue, useLogarithmic, isRunning)

\* Seconds from the first tick to the last tick since the last Start.
TickSpan ==
    IF lastTick = -1 THEN 0 ELSE (lastTick - firstTick) \div MsPerSecond

\* C1: after Start from a reset clock, elapsedTime after the last tick is the
\* time from the first tick to the last: the first tick adds nothing and every
\* later tick adds the time since the tick before it (ticks at 0, 1, 2, 3 s
\* give 3).
C1_ElapsedIsTickSpan ==
    (isRunning /\ startElapsed = 0 /\ lastTick # -1) => elapsedTime = TickSpan

\* C2: a tick callback that runs while the clock is idle is a no-op: it and
\* the frames it leads to leave elapsedTime as it is, leave lastTimeRef
\* cleared and register no frame callback.
C2_IdleTickIsNoOp ==
    [][((StrayTick \/ Frame) /\ ~isRunning)
          => (/\ elapsedTime' = elapsedTime
              /\ lastTimeRef' = 0
              /\ pending' = {})]_vars

\* C3: Reset, in any state, leaves elapsedTime = 0, isRunning = false and
\* lastTimeRef cleared, with no frame callback registered; and while the clock
\* stays idle elapsedTime stays 0.
C3_ResetClears ==
    [][/\ resetSimulation
          => (elapsedTime' = 0 /\ ~isRunning' /\ lastTimeRef' = 0 /\ pending' = {})
       /\ (~isRunning /\ elapsedTime = 0 /\ ~isRunning')
          => elapsedTime' = 0]_vars

\* C3 witness: Reset has just acted on a running clock that had time on it
\* (its ticks began after timestamp 0 and went on to a later timestamp).
C3_ResetWhileRunning ==
    /\ ~isRunning /\ effectDeps.isRunning
    /\ lastTick = -1 /\ firstTick > 0 /\ now > firstTick
    /\ elapsedTime = 0 /\ lastTimeRef = 0 /\ pending = {}

\* C4: Pause leaves elapsedTime as it is and clears lastTimeRef; the first
\* tick after a Start adds nothing; so elapsedTime never exceeds its value at
\* the last Start plus the time between the ticks since: time spent paused is
\* never added.
C4_PausedTimeNotAdded ==
    /\ [](elapsedTime <= startElapsed + TickSpan)
    /\ [][/\ (toggleAnimation /\ isRunning)
             => (elapsedTime' = elapsedTime /\ lastTimeRef' = 0)
          /\ (Frame /\ lastTick = -1)
             => elapsedTime' = elapsedTime]_vars

\* C4 witness: a clock paused with time on it was started again and its first
\* tick came at the late timestamp, adding nothing.
C4_FirstTickAfterLongPause ==
    /\ isRunning /\ startElapsed > 0
    /\ firstTick = LateSeconds * MsPerSecond /\ lastTick = firstTick
    /\ elapsedTime = startElapsed

\* C5: while the clock is idle every step but Reset, Start included, leaves
\* elapsedTime as it is.
C5_StartKeepsElapsed ==
    [][(~isRunning /\ ~resetSimulation) => elapsedTime' = elapsedTime]_vars

\* C5 witness: a clock paused with time on it has just been started again.
C5_StartedWithTimeOnTheClock ==
    /\ isRunning /\ ~Settled
    /\ startElapsed > 0 /\ elapsedTime = startElapsed /\ lastTick = -1

\* C6: the moving clock every render shows is elapsedTime / timeDilation of
\* the velocity of that render, to two decimals; at elapsedTime = 10 and
\* v = 0.6 it shows 8.00.
C6_MovingTimeDerived ==
    /\ view.velocity = velocity
    /\ view.movingTime = ToFixed2(elapsedTime * One, gamma(velocity))
    /\ (elapsedTime = 10 /\ 10 * velocity = 6 * VDen) => view.movingTime = 800

\* C6 witness: the slider was moved to v = 0.6 and the running clock shows 10 s.
C6_TenSecondsAtSixTenths ==
    /\ isRunning /\ lastTick # -1
    /\ elapsedTime = 10 /\ 10 * velocity = 6 * VDen
    /\ view.movingTime = 800 /\ view.stationaryTime = 1000

\* C7: in every render the velocity is the mapping of the slider value and
\* the scale of that render.
C7_VelocityIsMapped ==
    /\ velocity = MapVelocity(sliderValue, useLogarithmic)
    /\ view.velocity = velocity

C9_VelocityInRangeOfScale ==
    /\ 0 < velocity /\ velocity < VDen
    /\ IF useLogarithmic
         THEN /\ minVelocityLog * Pow(SliderSteps, exponent) <= velocity
              /\ velocity <= maxVelocityLog * Pow(SliderSteps, exponent)
         ELSE /\ minVelocityLinear * Pow(SliderSteps, exponent) <= velocity
              /\ velocity <= maxVelocityLinear * Pow(SliderSteps, exponent)

\* 0.1 + 0.8 * x, for x = s / SliderSteps, over VDen.
ClaimedLinear(s) ==
    (VDen \div 10) + (8 * (VDen \div 10) * s) \div SliderSteps

\* 0.9 + 0.0999 * (1 - (1 - x)^4), for x = s / SliderSteps, over VDen.
ClaimedLog(s) ==
    9 * (VDen \div 10)
        + 999 * (Pow(SliderSteps, 4)
                   - (SliderSteps - s) * (SliderSteps - s) * (SliderSteps - s) * (SliderSteps - s))

\* C10: once the mapping effect has run, the velocity is 0.1 + 0.8 * x on the
\* linear scale and 0.9 + 0.0999 * (1 - (1 - x)^4) on the logarithmic scale;
\* the ends map to 0.1, 0.9 (linear) and 0.9, 0.9999 (logarithmic), and the
\* middle of the linear scale to 0.5.
C10_MapFormulas ==
    Settled =>
        /\ velocity = (IF useLogarithmic THEN ClaimedLog(sliderValue)
                                         ELSE ClaimedLinear(sliderValue))
        /\ (~useLogarithmic /\ sliderValue = 0) => 10 * velocity = VDen
        /\ (~useLogarithmic /\ sliderValue = SliderSteps) => 10 * velocity = 9 * VDen
        /\ (~useLogarithmic /\ 2 * sliderValue = SliderSteps) => 2 * velocity = VDen
        /\ (useLogarithmic /\ sliderValue = 0) => 10 * velocity = 9 * VDen
        /\ (useLogarithmic /\ sliderValue = SliderSteps)
              => velocity = 9999 * (VDen \div 10000)

\* C10 witness: the slider is at 1 on the logarithmic scale and the velocity
\* is 0.9999.
C10_TopOfLogScale ==
    /\ Settled /\ useLogarithmic /\ sliderValue = SliderSteps
    /\ velocity = 9999 * (VDen \div 10000)

\* ------------------------------------------------------------------- C11
\* The rise of the logarithmic map over one tenth of the slider's travel,
\* from a / 10 to (a + 1) / 10, over One * 10^exponent.
LogRiseOfTenth(a) ==
    LogVelocityOn(10, a + 1) - LogVelocityOn(10, a)

\* C11 as stated: under the logarithmic scale map(0.9) - map(0.8) is greater
\* than map(0.5) - map(0.4).
C11_LogStepsGrow ==
    (Settled /\ useLogarithmic) => LogRiseOfTenth(8) > LogRiseOfTenth(4)

\* C11, amended: under the logarithmic scale map(0.9) - map(0.8) is less than
\* map(0.5) - map(0.4), and wherever the slider stands strictly inside its
\* range the velocity on the page rises less over the next slider step than
\* it rose over the last one (the steps shrink towards c).
C11_LogStepsShrink ==
    /\ LogRiseOfTenth(8) < LogRiseOfTenth(4)
    /\ (Settled /\ useLogarithmic /\ 0 < sliderValue /\ sliderValue < SliderSteps)
          => LogVelocity(sliderValue + 1) - velocity
               < velocity - LogVelocity(sliderValue - 1)

\* The logarithmic scale is on, the slider is one step below its top and the
\* velocity has been mapped.
C11_NearTopOfLogScale ==
    /\ Settled
    /\ useLogarithmic
    /\ sliderValue = SliderSteps - 1
    /\ velocity = LogVelocity(SliderSteps - 1)

\* ------------------------------------------------------------------- C12
\* C12: in every state the velocity lies strictly between 0 and 1 and the
\* factors on the page satisfy gamma >= 1, 0 < lengthContraction <= 1,
\* lengthContraction * gamma = 1 (lengthContraction is the reciprocal of
\* gamma, so the product is 1 to within one unit of lengthContraction's last
\* digit) and timeDilation = gamma exactly.
C12_FactorRelations ==
    /\ 0 < velocity /\ velocity < VDen
    /\ view.gamma >= One
    /\ 0 < view.lengthContraction /\ view.lengthContraction <= One
    /\ view.lengthContraction = (One * One) \div view.gamma
    /\ view.lengthContraction * view.gamma <= One * One
    /\ view.lengthContraction * view.gamma > One * One - view.gamma
    /\ view.timeDilation = view.gamma

\* The page shows the factors of the greatest velocity, 0.9999 (gamma above 70).
C12_FactorsAtTopSpeed ==
    /\ Settled
    /\ velocity = LogVelocity(SliderSteps)
    /\ view.gamma > 70 * One
    /\ view.lengthContraction < One \div 70

\* ------------------------------------------------------------------- C13
\* C13: whenever a step raises the velocity, gamma on the page rises and
\* lengthContraction on the page falls; and when the mapping effect runs
\* after the slider moved upward within one scale mode, gamma on the page
\* does not decrease.
C13_GammaMonotone ==
    [][ /\ (velocity' > velocity)
             => /\ view'.gamma > view.gamma
                /\ view'.lengthContraction < view.lengthContraction
        /\ ( /\ effectDeps' # effectDeps
             /\ effectDeps # NoDeps
             /\ effectDeps.useLogarithmic = useLogarithmic
             /\ sliderValue > effectDeps.sliderValue )
             => view'.gamma >= view.gamma ]_vars

\* The slider was moved from the middle to the top of the logarithmic scale
\* and the page shows a greater gamma than at the middle.
C13_RaisedToTopOfLogScale ==
    /\ Settled
    /\ useLogarithmic
    /\ sliderValue = SliderSteps
    /\ view.gamma > gamma(LogVelocity(SliderMid))
    /\ view.lengthContraction < lengthContraction(LogVelocity(SliderMid))

\* ------------------------------------------------------------------- C14
\* C14: in every state the three factors on the page are the factors of the
\* current velocity and of nothing else, so two renders with the same
\* velocity show the same factors whatever happened in between.
C14_FactorsFollowVelocity ==
    /\ view.gamma = gamma(velocity)
    /\ view.lengthContraction = lengthContraction(velocity)
    /\ view.timeDilation = timeDilation(velocity)

\* The velocity is the initial 0.5 again after the clock has run and the
\* view was switched.
C14_SameVelocityLater ==
    /\ Settled
    /\ velocity = VDen \div 2
    /\ elapsedTime > 0
    /\ lastTick # -1
    /\ viewMode = "time"

C16_IdleHasNoCallback ==
    /\ [](~isRunning => pending = {})
    /\ [][(isRunning /\ ~isRunning') => pending' = {}]_vars
    /\ [][Frame => isRunning]_vars

\* The clock was paused after it ticked: the effect of the pausing render has
\* not run yet and no callback is registered.
C16_JustPaused ==
    /\ mounted
    /\ ~isRunning
    /\ effectDeps.isRunning
    /\ hasCleanup
    /\ lastTick # -1
    /\ animationRef # NoHandle
    /\ pending = {}

\* ------------------------------------------------------------------- C17
\* C17: once the component is unmounted no frame callback is registered, and
\* no step changes the state, the refs or the page.
C17_NoTickAfterUnmount ==
    /\ [](~mounted => pending = {})
    /\ [][~mounted => UNCHANGED << reactState, refs, view >>]_vars

\* The component was unmounted while the clock was running and ticking.
C17_UnmountedWhileRunning ==
    /\ ~mounted
    /\ isRunning
    /\ effectDeps.isRunning
    /\ lastTick # -1
    /\ animationRef # NoHandle
    /\ pending = {}

\* ------------------------------------------------------------------- C18
\* C18: at most one frame callback is registered at any time; while the
\* component is mounted and the clock runs with its effect done, exactly the
\* callback animationRef names is registered; and every frame callback that
\* runs leaves exactly one registered.
C18_SingleLoop ==
    /\ [](Cardinality(pending) <= 1)
    /\ []((mounted /\ isRunning /\ effectDeps.isRunning) => pending = {animationRef})
    /\ [][Frame => (Cardinality(pending') = 1 /\ pending' = {animationRef'})]_vars

\* The clock runs for the second time and has ticked more than once since
\* it was started again: one callback is registered.
C18_TickingInSecondRun ==
    /\ mounted
    /\ isRunning
    /\ Settled
    /\ startElapsed > 0
    /\ firstTick # -1
    /\ lastTick > firstTick
    /\ Cardinality(pending) = 1

\* ------------------------------------------------------------------- C19
\* C19: elapsedTime is never negative and lastTimeRef is cleared whenever the
\* clock is idle; elapsedTime decreases in no step but a Reset; and
\* lastTimeRef is set only while the clock is running.
C19_ElapsedAndLastTime ==
    /\ [](elapsedTime >= 0 /\ (~isRunning => lastTimeRef = 0))
    /\ [][elapsedTime' >= elapsedTime \/ resetSimulation]_vars
    /\ [][(lastTimeRef' # lastTimeRef /\ lastTimeRef' # 0) => (isRunning /\ isRunning')]_vars

\* The clock was reset while it was running with time on it.
C19_ResetFromRunning ==
    /\ mounted
    /\ ~isRunning
    /\ effectDeps.isRunning
    /\ elapsedTime = 0
    /\ lastTimeRef = 0
    /\ lastTick = -1
    /\ firstTick > 0
    /\ now > firstTick

\* ------------------------------------------------------------------- C20
\* C20: a move of the slider, a switch of scale, a switch of view and the
\* run of the effects that follows one of them leave elapsedTime, isRunning
\* and lastTimeRef as they are, and leave the registered frame callback, the
\* handle in animationRef and the effect's cleanup as they are (the loop is
\* neither cancelled nor started anew).
C20_ControlsLeaveClock ==
    [][ ( \/ \E x \in SliderValues : handleSliderChange(x)
          \/ toggleScale
          \/ \E m \in ViewModes : setViewMode(m)
          \/ (FlushEffects /\ effectDeps # NoDeps /\ effectDeps.isRunning = isRunning) )
          => UNCHANGED << elapsedTime, isRunning, lastTimeRef, animationRef,
                          pending, hasCleanup >> ]_vars

\* The slider or the scale was changed while the clock was running and
\* ticking; the mapping effect has not run yet.
C20_ControlMovedMidRun ==
    /\ mounted
    /\ isRunning
    /\ effectDeps.isRunning
    /\ effectDeps.sliderValue # sliderValue
    /\ elapsedTime > 0
    /\ lastTimeRef # 0
    /\ pending = {animationRef}

====
